---- MODULE Spec2Model ----
(***************************************************************************)
(* Model of the video-aware WebDAV reverse proxy.                          *)
(*                                                                         *)
(*   - the Range parser of the streaming server (with the prefetch         *)
(*     expansion policy) and of the cache-enabled server;                  *)
(*   - the streaming Range engine of streaming-proxy-server.js             *)
(*     (router, handleStreamingRangeRequest, handleRedirectRange,          *)
(*     handleStreamingPartialDownload);                                    *)
(*   - the segment cache (VideoCache) and the Range handler of             *)
(*     enhanced-proxy-server.js.                                           *)
(*                                                                         *)
(* Byte quantities are scaled: one "MiB" of the model has MiB bytes.       *)
(***************************************************************************)
EXTENDS Integers, Sequences, FiniteSets, TLC

(***************************************************************************)
(* Scale and bounds                                                        *)
(***************************************************************************)
MiB == 3

\* largest number written in a generated Range header
MaxNum == 22 * MiB

Min(a, b) == IF a <= b THEN a ELSE b
Max(a, b) == IF a >= b THEN a ELSE b

(***************************************************************************)
(* Program constants                                                       *)
(***************************************************************************)
MIN_CHUNK_SIZE == 5 * MiB
OPTIMAL_CHUNK_SIZE == 10 * MiB
MEDIUM_LIMIT == 20 * MiB
SEGMENT_SIZE == 2 * MiB
MAX_CACHE_SIZE == 500 * MiB

(***************************************************************************)
(* Header text.  A header is a sequence of tokens: the unit prefix         *)
(* ("bytes=" or another unit) followed by single characters.               *)
(***************************************************************************)
DigitChars == <<"0", "1", "2", "3", "4", "5", "6", "7", "8", "9">>

IsDigit(c) == \E i \in 1..10 : DigitChars[i] = c

DigitVal(c) == (CHOOSE i \in 1..10 : DigitChars[i] = c) - 1

\* decimal text of a natural number (Number -> String conversion)
RECURSIVE Dec(_)
Dec(n) == IF n < 10 THEN <<DigitChars[n + 1]>>
          ELSE Dec(n \div 10) \o <<DigitChars[(n % 10) + 1]>>

\* index of the first occurrence of c in s, or Len(s)+1
RECURSIVE IndexOf(_, _, _)
IndexOf(s, c, i) == IF i > Len(s) THEN Len(s) + 1
                    ELSE IF s[i] = c THEN i
                    ELSE IndexOf(s, c, i + 1)

\* String.prototype.trim
RECURSIVE TrimLeft(_)
TrimLeft(s) == IF s # <<>> /\ Head(s) = " " THEN TrimLeft(Tail(s)) ELSE s

RECURSIVE TrimRight(_)
TrimRight(s) == IF s # <<>> /\ s[Len(s)] = " "
                THEN TrimRight(SubSeq(s, 1, Len(s) - 1)) ELSE s

Trim(s) == TrimRight(TrimLeft(s))

\* String.prototype.split(sep): the list of pieces
RECURSIVE Split(_, _)
Split(s, c) == LET i == IndexOf(s, c, 1)
               IN  IF i > Len(s) THEN <<s>>
                   ELSE <<SubSeq(s, 1, i - 1)>> \o Split(SubSeq(s, i + 1, Len(s)), c)

\* A JS number as far as the parser can produce one: NaN or an integer.
NaNValue == [nan |-> TRUE, v |-> 0]
Num(n) == [nan |-> FALSE, v |-> n]

\* value of the longest prefix of digits of s, scanning from position i
RECURSIVE DigitsValue(_, _, _)
DigitsValue(s, i, acc) == IF i > Len(s) \/ ~IsDigit(s[i]) THEN acc
                          ELSE DigitsValue(s, i + 1, 10 * acc + DigitVal(s[i]))

\* parseInt(text): leading blanks, optional sign, longest run of digits
parseInt(text) ==
    LET s == TrimLeft(text)
        neg == s # <<>> /\ Head(s) = "-"
        signed == s # <<>> /\ Head(s) \in {"-", "+"}
        d == IF signed THEN Tail(s) ELSE s
    IN  IF d = <<>> \/ ~IsDigit(Head(d)) THEN NaNValue
        ELSE IF neg THEN Num(0 - DigitsValue(d, 1, 0))
        ELSE Num(DigitsValue(d, 1, 0))

(***************************************************************************)
(* Range parser of the streaming server                                    *)
(***************************************************************************)
\* parseRange returned null
NullRange == [ok |-> FALSE, start |-> 0, end |-> 0, nanS |-> FALSE, nanE |-> FALSE,
              half |-> FALSE, optimized |-> FALSE, originalEnd |-> 0]

\* the object literal {start, end}; nanS / nanE mark a bound that is NaN
PlainRange(s, e) == [ok |-> TRUE, start |-> s.v, end |-> e.v, nanS |-> s.nan, nanE |-> e.nan,
                     half |-> FALSE, optimized |-> FALSE, originalEnd |-> 0]

\* {start, end: expandedEnd, originalEnd, optimized: true}; e2 is twice the
\* expanded end, which is a multiple of one half
ExpandedRange(s, e2, orig) == [ok |-> TRUE, start |-> s, end |-> e2 \div 2, nanS |-> FALSE,
                               nanE |-> FALSE, half |-> (e2 % 2 = 1), optimized |-> TRUE,
                               originalEnd |-> orig]

\* the first range of the header: substring(6).split(',')[0].trim()
FirstRangeText(header) == Trim(Split(Tail(header), ",")[1])

\* the two bounds before the expansion policy is applied
ParsedBounds(header, totalSize) ==
    LET range == FirstRangeText(header)
    IN  IF range # <<>> /\ Head(range) = "-"
        THEN LET suffixLength == parseInt(Tail(range))
             IN  <<IF suffixLength.nan THEN NaNValue
                   ELSE Num(Max(0, totalSize - suffixLength.v)),
                   Num(totalSize - 1)>>
        ELSE LET parts == Split(range, "-")
                 start == parts[1]
             IN  <<IF start # <<>> THEN parseInt(start) ELSE Num(0),
                   IF Len(parts) < 2 THEN NaNValue
                   ELSE IF parts[2] # <<>> THEN parseInt(parts[2])
                   ELSE Num(totalSize - 1)>>

\* ExpandPolicy with the medium branch growing the request by 2 instead of 1.5
ExpandPolicyDouble(s, e, totalSize) ==
    LET requestSize == e.v - s.v + 1
        smallEnd2 == 2 * Min(s.v + OPTIMAL_CHUNK_SIZE - 1, totalSize - 1)
        mediumEnd2 == Min(2 * s.v + Max(4 * requestSize, 2 * OPTIMAL_CHUNK_SIZE) - 2,
                          2 * (totalSize - 1))
    IN  IF s.nan \/ e.nan THEN PlainRange(s, e)
        ELSE IF requestSize < MIN_CHUNK_SIZE THEN ExpandedRange(s.v, smallEnd2, e.v)
        ELSE IF requestSize < MEDIUM_LIMIT /\ mediumEnd2 > 2 * e.v
             THEN ExpandedRange(s.v, mediumEnd2, e.v)
        ELSE PlainRange(s, e)

\* the prefetch expansion applied to the parsed bounds s, e
ExpandPolicy(s, e, totalSize) ==
    LET requestSize == e.v - s.v + 1
        smallEnd2 == 2 * Min(s.v + OPTIMAL_CHUNK_SIZE - 1, totalSize - 1)
        mediumEnd2 == Min(2 * s.v + Max(3 * requestSize, 2 * OPTIMAL_CHUNK_SIZE) - 2,
                          2 * (totalSize - 1))
    IN  IF s.nan \/ e.nan THEN PlainRange(s, e)
        ELSE IF requestSize < MIN_CHUNK_SIZE THEN ExpandedRange(s.v, smallEnd2, e.v)
        ELSE IF requestSize < MEDIUM_LIMIT /\ mediumEnd2 > 2 * e.v
             THEN ExpandedRange(s.v, mediumEnd2, e.v)
        ELSE PlainRange(s, e)

parseRange(rangeHeader, totalSize) ==
    IF rangeHeader = <<>> \/ Head(rangeHeader) # "bytes=" THEN NullRange
    ELSE LET b == ParsedBounds(rangeHeader, totalSize)
         IN  ExpandPolicy(b[1], b[2], totalSize)

(***************************************************************************)
(* Range parser of the cache-enabled server                                *)
(***************************************************************************)
parseRangeEnh(rangeHeader, totalSize) ==
    IF rangeHeader = <<>> \/ Head(rangeHeader) # "bytes=" THEN NullRange
    ELSE LET parts == Split(FirstRangeText(rangeHeader), "-")
             start == parts[1]
         IN  PlainRange(IF start # <<>> THEN parseInt(start) ELSE Num(0),
                        IF Len(parts) >= 2 /\ parts[2] # <<>> THEN parseInt(parts[2])
                        ELSE Num(totalSize - 1))

(***************************************************************************)
(* Range headers a client can send                                         *)
(***************************************************************************)
HdrSE(s, e) == <<"bytes=">> \o Dec(s) \o <<"-">> \o Dec(e)
HdrS(s) == <<"bytes=">> \o Dec(s) \o <<"-">>
HdrSuffix(n) == <<"bytes=", "-">> \o Dec(n)

\* what the client asked for: form and numbers
ClientForms == [form : {"SE"}, s : 0..MaxNum, e : 0..MaxNum, unit : {"bytes="}]
          \cup [form : {"S"}, s : 0..MaxNum, e : {0}, unit : {"bytes="}]
          \cup [form : {"N"}, s : 0..MaxNum, e : {0}, unit : {"bytes="}]
          \cup [form : {"SE"}, s : {0}, e : {1}, unit : {"items="}]
          \cup [form : {"junkS", "junkE", "nodash", "multi", "blank", "empty"},
                s : {3}, e : {5}, unit : {"bytes="}]

HeaderOf(f) ==
    CASE f.form = "SE" -> <<f.unit>> \o Tail(HdrSE(f.s, f.e))
      [] f.form = "S" -> HdrS(f.s)
      [] f.form = "N" -> HdrSuffix(f.s)
      [] f.form = "junkS" -> <<"bytes=", "q", "-">> \o Dec(f.e)
      [] f.form = "junkE" -> <<"bytes=">> \o Dec(f.s) \o <<"-", "q">>
      [] f.form = "nodash" -> <<"bytes=">> \o Dec(f.s)
      [] f.form = "multi" -> HdrSE(f.s, f.e) \o <<",", " ">> \o Tail(HdrSE(f.e + 2, f.e + 4))
      [] f.form = "blank" -> <<"bytes=", " ">> \o Tail(HdrSE(f.s, f.e)) \o <<" ">>
      [] f.form = "empty" -> <<>>

\* file sizes the parser is exercised with
ParseTotals == {1, MiB, 3 * MiB, MaxNum \div 2, MaxNum - 1, MaxNum + 3 * MiB}

(***************************************************************************)
(* State                                                                   *)
(***************************************************************************)
VARIABLES
    \* Range parser exercised on its own
    pForm,      \* the request as the client wrote it
    pTotal,     \* the file size handed to the parser
    pRange,     \* result of the streaming server's parseRange
    pRangeE,    \* result of the cache-enabled server's parseRange
    pDone,      \* which of the two parsers have run
    \* streaming server (streaming-proxy-server.js)
    fileSize,   \* size of the file at the origin and at the CDN
    rq,         \* the request being handled: position, header, totalSize, range
    res,        \* the client response: status, advertised headers, bytes written, ended
    up,         \* the upstream response being read
    metadata,   \* cacheSystem.metadata entry of the URL
    redirects,  \* cacheSystem.redirects entry of the URL
    now,        \* Date.now(), in minutes
    \* cache-enabled server (enhanced-proxy-server.js)
    cache,      \* VideoCache.cache: the entries in Map insertion order
    cacheSize,  \* VideoCache.cacheSize
    er,         \* the requests being handled, per connection
    started,    \* number of requests accepted so far
    lastSet,    \* the latest VideoCache.set: its size, and what it met
    \* streaming server: the API endpoints and the other requests
    preload,    \* cacheSystem.preloadCache, by start offset
    pl,         \* the request being handled outside the Range handler
    \* the headers of the requests sent upstream
    hreq,       \* the client request: its headers and its Range
    hout        \* the upstream requests built for it

pvars == <<pForm, pTotal, pRange, pRangeE, pDone>>
svars == <<fileSize, rq, res, up, metadata, redirects>>
cvars == <<cache, cacheSize, er, started, lastSet>>
avars == <<preload, pl>>
hvars == <<hreq, hout>>
vars == <<pvars, svars, now, cvars, avars, hvars>>

(***************************************************************************)
(* The parsers on their own                                                *)
(***************************************************************************)
PInit ==
    /\ pForm \in ClientForms
    /\ pTotal \in ParseTotals
    /\ pRange = NullRange
    /\ pRangeE = NullRange
    /\ pDone = {}

PIdle ==
    /\ pForm = [form |-> "empty", s |-> 3, e |-> 5, unit |-> "bytes="]
    /\ pTotal = 1
    /\ pRange = NullRange
    /\ pRangeE = NullRange
    /\ pDone = {}

ParseStreaming ==
    /\ "streaming" \notin pDone
    /\ pRange' = parseRange(HeaderOf(pForm), pTotal)
    /\ pDone' = pDone \cup {"streaming"}
    /\ UNCHANGED <<pForm, pTotal, pRangeE, svars, now, cvars, avars, hvars>>

ParseEnhanced ==
    /\ "enhanced" \notin pDone
    /\ pRangeE' = parseRangeEnh(HeaderOf(pForm), pTotal)
    /\ pDone' = pDone \cup {"enhanced"}
    /\ UNCHANGED <<pForm, pTotal, pRange, svars, now, cvars, avars, hvars>>

(***************************************************************************)
(* Streaming server: bounds, inputs and the upstream servers               *)
(***************************************************************************)
\* the clock stops here
MaxTime == 1

\* cache lifetimes, in minutes
METADATA_TTL == 5
REDIRECT_TTL == 10

\* sizes of the file served by the origin
FileSizes == {3 * MiB, 13 * MiB}

\* sizes of the chunks in which an upstream body arrives
ChunkSizes == {1, 3 * MiB}

ClientForm(f, s, e) == [form |-> f, s |-> s, e |-> e, unit |-> "bytes="]

\* the Range headers sent to the streaming server
StreamForms == {ClientForm("SE", 0, 0),
                ClientForm("SE", 1, MiB + 1),
                ClientForm("SE", MiB, 8 * MiB),
                ClientForm("SE", 0, 14 * MiB),
                ClientForm("SE", 2 * MiB, 4 * MiB),
                ClientForm("S", 2 * MiB, 0),
                ClientForm("S", 14 * MiB, 0),
                ClientForm("N", MiB, 0),
                ClientForm("SE", 3 * MiB, MiB),
                [form |-> "SE", s |-> 0, e |-> 1, unit |-> "items="]}

NoInterval == [sat |-> FALSE, start |-> 0, end |-> 0]

\* the bytes a server that honours Range (RFC 7233) returns with a 206 for
\* the client's own header, absent when it cannot satisfy the header
OriginInterval(f, size) ==
    CASE f.unit # "bytes=" -> NoInterval
      [] f.form = "SE" /\ f.unit = "bytes=" ->
            IF f.s <= f.e /\ f.s < size
            THEN [sat |-> TRUE, start |-> f.s, end |-> Min(f.e, size - 1)] ELSE NoInterval
      [] f.form = "S" /\ f.unit = "bytes=" ->
            IF f.s < size THEN [sat |-> TRUE, start |-> f.s, end |-> size - 1] ELSE NoInterval
      [] f.form = "N" /\ f.unit = "bytes=" ->
            IF f.s > 0 /\ size > 0
            THEN [sat |-> TRUE, start |-> Max(0, size - f.s), end |-> size - 1] ELSE NoInterval
      [] OTHER -> NoInterval

\* the bytes the CDN returns with a 206 for the header the proxy builds,
\* `bytes=${range.start}-${range.end}`
CdnInterval(range, size) ==
    IF ~range.nanS /\ ~range.nanE /\ ~range.half
       /\ range.start <= range.end /\ range.start < size
    THEN [sat |-> TRUE, start |-> range.start, end |-> Min(range.end, size - 1)]
    ELSE NoInterval

IntervalLen(i) == i.end - i.start + 1

NoEntry == [present |-> FALSE, data |-> 0, timestamp |-> 0]

\* redir: a usable redirect entry met the request; retries: the retries made
\* for it, counted up to 2 (both history only)
IdleRq == [pc |-> "idle", form |-> ClientForm("SE", 0, 0), total |-> 0, range |-> NullRange,
           inRetry |-> FALSE, active |-> FALSE, fail |-> "none", redir |-> FALSE,
           retries |-> 0]
\* gone: the client has disconnected; late: the chunks handled since then,
\* counted up to 2 (history only)
\* inorder: every write so far began at offset range.start + written
\* (history only)
FreshRes == [status |-> 0, len |-> 0, rangeEnd |-> 0, frac |-> FALSE, written |-> 0,
             ended |-> FALSE, gone |-> FALSE, late |-> 0, inorder |-> TRUE]
\* big: a chunk larger than a segment has arrived (history only)
NoUpstream == [state |-> "none", left |-> 0, downloaded |-> 0, sent2 |-> 0, status |-> 0,
               from |-> "none", big |-> FALSE]

SInit ==
    /\ fileSize \in FileSizes
    /\ rq = IdleRq
    /\ res = FreshRes
    /\ up = NoUpstream
    /\ metadata = NoEntry
    /\ redirects = NoEntry

SIdle ==
    /\ fileSize = 3 * MiB
    /\ rq = IdleRq
    /\ res = FreshRes
    /\ up = NoUpstream
    /\ metadata = NoEntry
    /\ redirects = NoEntry

(***************************************************************************)
(* Streaming server: caches                                                *)
(***************************************************************************)
\* an entry still served at the very age of its lifetime
getCachedMetadataInclusive ==
    metadata.present /\ now - metadata.timestamp <= METADATA_TTL

getCachedMetadata == metadata.present /\ now - metadata.timestamp < METADATA_TTL

\* the callers test the URL returned for truth: an entry stored without a
\* Location (data = 0) yields undefined
getCachedRedirect ==
    redirects.present /\ now - redirects.timestamp < REDIRECT_TTL /\ redirects.data # 0

\* parseInt(headers['content-length'] || '0'); a missing header is data = -1
ContentLength(data) == IF data < 0 THEN 0 ELSE data

(***************************************************************************)
(* Streaming server: the router's catch / finally                          *)
(***************************************************************************)
\* an error reaches the router (r, c: the request and the client response at
\* that point): 500 when no header was sent; the ActiveRequest entry is removed
RouterCatch(r, c, reason) ==
    /\ rq' = [r EXCEPT !.pc = "closed", !.active = FALSE, !.fail = reason]
    /\ res' = IF c.status = 0
              THEN [c EXCEPT !.status = 500, !.ended = TRUE]
              ELSE c

\* a catch block that asks the origin again after every "redirect" error
InnerCatchAgain(r, c, reason, isRedirectError) ==
    IF isRedirectError
    THEN /\ rq' = [r EXCEPT !.pc = "retryGet", !.fail = reason, !.inRetry = TRUE,
                            !.retries = Min(2, @ + 1)]
         /\ res' = c
    ELSE RouterCatch(r, c, reason)

\* the catch block of handleStreamingRangeRequest: a "redirect" error asks
\* the origin again without Range, any other error is thrown on; an error
\* thrown inside the catch block itself goes to the router
InnerCatch(r, c, reason, isRedirectError) ==
    IF r.inRetry THEN RouterCatch(r, c, reason)
    ELSE IF isRedirectError
    THEN /\ rq' = [r EXCEPT !.pc = "retryGet", !.fail = reason, !.inRetry = TRUE,
                            !.retries = Min(2, @ + 1)]
         /\ res' = c
    ELSE RouterCatch(r, c, reason)

\* handleStreamingRangeRequest once totalSize is known, up to its first await
ContinueWithSize(r0, c, totalSize) ==
    LET range == parseRange(HeaderOf(r0.form), totalSize)
        r == [r0 EXCEPT !.total = totalSize, !.range = range]
    IN  IF totalSize = 0 THEN RouterCatch(r, c, "size0")
        ELSE IF ~range.ok THEN RouterCatch(r, c, "badrange")
        ELSE /\ res' = c
             /\ IF getCachedRedirect
                THEN rq' = [r EXCEPT !.pc = "cdnReq"]
                ELSE rq' = [r EXCEPT !.pc = "originGet"]

\* a video GET with a Range header arrives at the router
SNewRequest ==
    /\ rq.pc \in {"idle", "closed"}
    /\ \E f \in StreamForms :
          LET r0 == [IdleRq EXCEPT !.form = f, !.active = TRUE, !.redir = getCachedRedirect]
          IN  IF getCachedMetadata
              THEN ContinueWithSize(r0, FreshRes, ContentLength(metadata.data))
              ELSE /\ rq' = [r0 EXCEPT !.pc = "head"]
                   /\ res' = FreshRes
    /\ up' = NoUpstream
    /\ UNCHANGED <<fileSize, metadata, redirects, now, pvars, cvars, avars, hvars>>

\* the HEAD response arrives; its headers are cached whatever they hold
SHeadResponse ==
    /\ rq.pc = "head"
    /\ \E data \in {fileSize, -1} :
          /\ metadata' = [present |-> TRUE, data |-> data, timestamp |-> now]
          /\ ContinueWithSize(rq, res, ContentLength(data))
    /\ UNCHANGED <<fileSize, up, redirects, now, pvars, cvars, avars, hvars>>

\* the HEAD request fails: thrown before the try block
SHeadError ==
    /\ rq.pc = "head"
    /\ RouterCatch(rq, res, "neterr")
    /\ UNCHANGED <<fileSize, up, metadata, redirects, now, pvars, cvars, avars, hvars>>

(***************************************************************************)
(* Streaming server: the Range GET to the origin                           *)
(***************************************************************************)
\* res.writeHead(206, ...) with the given Content-Length and Content-Range end
WriteHead206(len, rangeEnd, frac) ==
    [status |-> 206, len |-> len, rangeEnd |-> rangeEnd, frac |-> frac,
     written |-> 0, ended |-> FALSE, gone |-> FALSE, late |-> 0, inorder |-> TRUE]

OpenBody(len, status, from) ==
    [state |-> "open", left |-> len, downloaded |-> 0, sent2 |-> 0, status |-> status,
     from |-> from, big |-> FALSE]

\* the origin answers the GET that carries the client's headers
SOriginResponse ==
    /\ rq.pc = "originGet"
    /\ \E status \in {206, 200, 301, 302, 404}, location \in BOOLEAN :
          LET iv == OriginInterval(rq.form, fileSize)
              range == rq.range
          IN  CASE status = 206 ->
                     /\ iv.sat
                     /\ location
                     /\ IF range.optimized /\ range.originalEnd # 0
                        THEN /\ res' = WriteHead206(range.originalEnd - range.start + 1,
                                                    range.originalEnd, FALSE)
                             /\ rq' = [rq EXCEPT !.pc = "x206", !.active = FALSE]
                        ELSE /\ res' = WriteHead206(IntervalLen(iv), iv.end, FALSE)
                             /\ rq' = [rq EXCEPT !.pc = "p206", !.active = FALSE]
                     /\ up' = OpenBody(IntervalLen(iv), 206, "origin")
                     /\ redirects' = redirects
                [] status \in {301, 302} ->
                     /\ up' = [NoUpstream EXCEPT !.status = status, !.from = "origin"]
                     /\ IF location
                        THEN /\ redirects' = [present |-> TRUE, data |-> 1, timestamp |-> now]
                             /\ rq' = [rq EXCEPT !.pc = "cdnReq"]
                             /\ res' = res
                        ELSE /\ redirects' = redirects
                             /\ InnerCatch(rq, res, "noloc", TRUE)
                [] OTHER ->
                     /\ location
                     /\ up' = [NoUpstream EXCEPT !.status = status, !.from = "origin"]
                     /\ rq' = [rq EXCEPT !.pc = "pdReq"]
                     /\ res' = res
                     /\ redirects' = redirects
    /\ UNCHANGED <<fileSize, metadata, now, pvars, cvars, avars, hvars>>

\* the GET to the origin fails before any response
SOriginError ==
    /\ rq.pc = "originGet"
    /\ InnerCatch(rq, res, "neterr", FALSE)
    /\ UNCHANGED <<fileSize, up, metadata, redirects, now, pvars, cvars, avars, hvars>>

(***************************************************************************)
(* Streaming server: handleRedirectRange                                   *)
(***************************************************************************)
\* Content-Length and Content-Range computed from range.start and range.end
RangeHead(range) ==
    WriteHead206(range.end - range.start + 1, range.end, range.half)

\* twice targetBytes = range.end - range.start + 1
Target2(range) == 2 * (range.end - range.start + 1) + (IF range.half THEN 1 ELSE 0)

SCdnResponse ==
    /\ rq.pc = "cdnReq"
    /\ \E status \in {206, 200, 403} :
          LET iv == CdnInterval(rq.range, fileSize)
          IN  CASE status = 206 ->
                     /\ iv.sat
                     /\ res' = RangeHead(rq.range)
                     /\ up' = OpenBody(IntervalLen(iv), 206, "cdn")
                     /\ rq' = [rq EXCEPT !.pc = "cdn206"]
                [] status = 200 ->
                     /\ res' = RangeHead(rq.range)
                     /\ up' = OpenBody(fileSize, 200, "cdn")
                     /\ rq' = [rq EXCEPT !.pc = "cdn200"]
                [] OTHER ->
                     /\ up' = [NoUpstream EXCEPT !.status = status, !.from = "cdn"]
                     /\ InnerCatch(rq, res, "cdnstatus", TRUE)
    /\ UNCHANGED <<fileSize, metadata, redirects, now, pvars, cvars, avars, hvars>>

SCdnError ==
    /\ rq.pc = "cdnReq"
    /\ InnerCatch(rq, res, "neterr", FALSE)
    /\ UNCHANGED <<fileSize, up, metadata, redirects, now, pvars, cvars, avars, hvars>>

(***************************************************************************)
(* Streaming server: handleStreamingPartialDownload                        *)
(***************************************************************************)
\* the origin answers the second GET, sent without Range
SPartialResponse ==
    /\ rq.pc = "pdReq"
    /\ \E status \in {200, 404} :
          IF status = 200
          THEN /\ res' = RangeHead(rq.range)
               /\ up' = OpenBody(fileSize, 200, "origin")
               /\ rq' = [rq EXCEPT !.pc = "pd200"]
          ELSE /\ up' = [NoUpstream EXCEPT !.status = status, !.from = "origin"]
               /\ InnerCatch(rq, res, "upstatus", FALSE)
    /\ UNCHANGED <<fileSize, metadata, redirects, now, pvars, cvars, avars, hvars>>

SPartialError ==
    /\ rq.pc = "pdReq"
    /\ InnerCatch(rq, res, "neterr", FALSE)
    /\ UNCHANGED <<fileSize, up, metadata, redirects, now, pvars, cvars, avars, hvars>>

(***************************************************************************)
(* Streaming server: the redirect retry of the catch block                 *)
(***************************************************************************)
SRetryResponse ==
    /\ rq.pc = "retryGet"
    /\ \E status \in {302, 301, 404}, location \in BOOLEAN :
          /\ up' = [NoUpstream EXCEPT !.status = status, !.from = "origin"]
          /\ IF status = 302
             THEN IF location
                  THEN /\ rq' = [rq EXCEPT !.pc = "cdnReq"]
                       /\ res' = res
                  ELSE RouterCatch(rq, res, "noloc")
             ELSE /\ location
                  /\ RouterCatch(rq, res, rq.fail)
    /\ UNCHANGED <<fileSize, metadata, redirects, now, pvars, cvars, avars, hvars>>

SRetryError ==
    /\ rq.pc = "retryGet"
    /\ RouterCatch(rq, res, "neterr")
    /\ UNCHANGED <<fileSize, up, metadata, redirects, now, pvars, cvars, avars, hvars>>

(***************************************************************************)
(* Streaming server: the 'data', 'end' and 'error' events of a body        *)
(***************************************************************************)
Streaming == rq.pc \in {"x206", "p206", "cdn206", "cdn200", "pd200"}

\* a 'data' listener has run on response c
Handled(c) == [c EXCEPT !.late = IF c.gone THEN Min(2, @ + 1) ELSE @]

\* response.destroy(); res.end(): nothing more happens for this request
Finish(u, written) ==
    /\ up' = [u EXCEPT !.state = "destroyed"]
    /\ res' = Handled([res EXCEPT !.written = written, !.ended = TRUE])
    /\ rq' = [rq EXCEPT !.pc = "closed", !.active = FALSE]

\* the 'data' listener of the expanded-range 206 branch
TruncatingData(k) ==
    LET originalSize == res.len
        transferredBytes ==
            IF res.written + k <= originalSize THEN res.written + k
            ELSE IF res.written < originalSize THEN originalSize
            ELSE res.written
        u == [up EXCEPT !.left = @ - k, !.downloaded = @ + k,
                        !.big = @ \/ k > SEGMENT_SIZE]
    IN  IF transferredBytes >= originalSize
        THEN Finish(u, transferredBytes)
        ELSE /\ up' = u
             /\ res' = Handled([res EXCEPT !.written = transferredBytes])
             /\ rq' = rq

\* response.pipe(res): every chunk is written to the client
PipeData(k) ==
    /\ up' = [up EXCEPT !.left = @ - k, !.downloaded = @ + k,
                         !.big = @ \/ k > SEGMENT_SIZE]
    /\ res' = Handled([res EXCEPT !.written = @ + k])
    /\ rq' = rq

\* a slice that starts with the first byte of every chunk
UseStartZero(range, chunkStart) == 0

\* Math.max(0, range.start - chunkStart)
UseStart(range, chunkStart) == Max(0, range.start - chunkStart)

\* the 'data' listener that slices a 200 body (CDN or origin)
SliceData(k) ==
    LET range == rq.range
        chunkStart == up.downloaded
        chunkEnd == up.downloaded + k - 1
        overlaps == chunkEnd >= range.start /\ chunkStart <= range.end
                    /\ up.sent2 < Target2(range)
        useStart == UseStart(range, chunkStart)
        \* Buffer.slice truncates a fractional index
        useEnd == Min(k - 1, range.end - chunkStart)
        usefulLen == useEnd - useStart + 1
        send2 == IF overlaps /\ useStart <= useEnd
                 THEN Max(0, Min(2 * usefulLen, Target2(range) - up.sent2))
                 ELSE 0
        sent2 == up.sent2 + send2
        written == res.written + (send2 \div 2)
        inorder == res.inorder
                   /\ (send2 > 0 => chunkStart + useStart = range.start + res.written)
        u == [up EXCEPT !.left = @ - k, !.downloaded = @ + k, !.sent2 = sent2,
                        !.big = @ \/ k > SEGMENT_SIZE]
    IN  IF sent2 >= Target2(range) \/ u.downloaded > range.end
        THEN /\ up' = [u EXCEPT !.state = "destroyed"]
             /\ res' = Handled([res EXCEPT !.written = written, !.ended = TRUE,
                                           !.inorder = inorder])
             /\ rq' = [rq EXCEPT !.pc = "closed", !.active = FALSE]
        ELSE /\ up' = u
             /\ res' = Handled([res EXCEPT !.written = written, !.inorder = inorder])
             /\ rq' = rq

SChunk ==
    /\ Streaming
    /\ up.state = "open"
    /\ \E k \in ChunkSizes \cup {up.left} :
          /\ 0 < k
          /\ k <= up.left
          /\ CASE rq.pc = "x206" -> TruncatingData(k)
               [] rq.pc \in {"p206", "cdn206"} -> PipeData(k)
               [] OTHER -> SliceData(k)
    /\ UNCHANGED <<fileSize, metadata, redirects, now, pvars, cvars, avars, hvars>>

\* the client's socket closes while a body is streamed: neither req nor res
\* has a 'close' or 'error' listener, and every later res.write is dropped
SClientClose ==
    /\ Streaming
    /\ up.state = "open"
    /\ ~res.gone
    /\ res' = [res EXCEPT !.gone = TRUE]
    /\ UNCHANGED <<fileSize, rq, up, metadata, redirects, now, pvars, cvars, avars, hvars>>

\* the upstream has been silent for the agent's 30 s: the socket emits
\* 'timeout', for which no request has a listener; the request stays as it
\* is and the upstream stays silent
STimeout ==
    /\ \/ rq.pc \in {"head", "originGet", "cdnReq", "pdReq", "retryGet"}
       \/ Streaming /\ up.state = "open"
    /\ rq' = [rq EXCEPT !.pc = "stalled"]
    /\ UNCHANGED <<fileSize, res, up, metadata, redirects, now, pvars, cvars, avars, hvars>>

\* the body ends; the expanded-range 206 branch has no 'end' listener
SEnd ==
    /\ Streaming
    /\ up.state = "open"
    /\ up.left = 0
    /\ up' = [up EXCEPT !.state = "ended"]
    /\ res' = IF rq.pc = "x206" THEN res ELSE [res EXCEPT !.ended = TRUE]
    /\ rq' = [rq EXCEPT !.pc = "closed", !.active = FALSE]
    /\ UNCHANGED <<fileSize, metadata, redirects, now, pvars, cvars, avars, hvars>>

\* the body fails: the 206 branches end the client response, the others
\* reject and the error reaches the router with the headers already sent
SBodyError ==
    /\ Streaming
    /\ up.state = "open"
    /\ up' = [up EXCEPT !.state = "errored"]
    /\ IF rq.pc \in {"x206", "p206"}
       THEN /\ res' = [res EXCEPT !.ended = TRUE]
            /\ rq' = [rq EXCEPT !.pc = "closed", !.active = FALSE, !.fail = "bodyerr"]
       ELSE InnerCatch(rq, res, "bodyerr", FALSE)
    /\ UNCHANGED <<fileSize, metadata, redirects, now, pvars, cvars, avars, hvars>>

(***************************************************************************)
(* Streaming server: time and the sweeper                                  *)
(***************************************************************************)
Tick ==
    /\ now < MaxTime
    /\ now' = now + 1
    /\ UNCHANGED <<svars, pvars, cvars, avars, hvars>>

\* lifetime of a preloaded range, in minutes
PRELOAD_TTL == 2

\* the start offsets asked of /api/preload
PreloadStarts == {0, 4 * MiB}

\* the size parameter of /api/preload, left at its default
PRELOAD_SIZE == 2 * MiB

\* a sweeper that takes an entry a minute before its lifetime is over
ExpiredEarly(entry, ttl) == entry.present /\ now - entry.timestamp >= ttl - 1

Expired(entry, ttl) == entry.present /\ now - entry.timestamp > ttl

\* cacheSystem.cleanup, run by setInterval
Sweep ==
    /\ \/ Expired(metadata, METADATA_TTL)
       \/ Expired(redirects, REDIRECT_TTL)
       \/ \E k \in PreloadStarts : Expired(preload[k], PRELOAD_TTL)
    /\ metadata' = IF Expired(metadata, METADATA_TTL) THEN NoEntry ELSE metadata
    /\ redirects' = IF Expired(redirects, REDIRECT_TTL) THEN NoEntry ELSE redirects
    /\ preload' = [k \in PreloadStarts |->
                      IF Expired(preload[k], PRELOAD_TTL) THEN NoEntry ELSE preload[k]]
    /\ UNCHANGED <<fileSize, rq, res, up, now, pl, pvars, cvars, hvars>>

(***************************************************************************)
(* Cache-enabled server: inputs                                            *)
(***************************************************************************)
\* connections handled concurrently
Conns == {1, 2}

\* requests accepted in one run
MaxRequests == 2

\* size of the file served to the cache-enabled server
BigFile == 700 * MiB

\* a request for a long stretch of the file, starting at segment k
BigForm(k) == ClientForm("SE", k * SEGMENT_SIZE, k * SEGMENT_SIZE + 300 * MiB - 1)

\* the Range headers sent to the cache-enabled server
CacheForms == {ClientForm("SE", 0, 0),
               ClientForm("SE", 1, SEGMENT_SIZE - 1),
               ClientForm("SE", 0, (SEGMENT_SIZE \div 2) - 1),
               BigForm(0), BigForm(1),
               ClientForm("SE", SEGMENT_SIZE - 1, SEGMENT_SIZE),
               [form |-> "SE", s |-> 0, e |-> 1, unit |-> "items="]}

(***************************************************************************)
(* VideoCache                                                              *)
(***************************************************************************)
\* Math.floor(offset / SEGMENT_SIZE) * SEGMENT_SIZE
SegmentStart(offset) == (offset \div SEGMENT_SIZE) * SEGMENT_SIZE

\* the key `${urlHash}-seg-${segmentStart}-${segmentEnd}`
getCacheKey(url, range) ==
    [url |-> url,
     segStart |-> SegmentStart(range.start),
     segEnd |-> Min(SegmentStart(range.start) + SEGMENT_SIZE - 1, range.end)]

getSegmentRange(range) ==
    [start |-> SegmentStart(range.start),
     end |-> SegmentStart(range.start) + SEGMENT_SIZE - 1]

\* position of the entry stored under key, 0 when absent
KeyIndex(entries, key, from) ==
    IF \E i \in from..Len(entries) : entries[i].key = key
    THEN CHOOSE i \in from..Len(entries) : entries[i].key = key
    ELSE 0

\* total size of entries[lo..hi]
RECURSIVE SumRange(_, _, _)
SumRange(entries, lo, hi) ==
    IF lo > hi THEN 0
    ELSE IF lo = hi THEN entries[lo].size
    ELSE LET mid == (lo + hi) \div 2
         IN  SumRange(entries, lo, mid) + SumRange(entries, mid + 1, hi)

\* total size of the entries held
SumSizes(entries) == SumRange(entries, 1, Len(entries))

\* Array.prototype.sort with a comparator on one numeric field is stable:
\* an entry lands behind the smaller ones and the equal ones that precede
\* it; entries already in order stay as they are
StableSort(entries, field) ==
    LET n == Len(entries)
        rank == SubSeq([i \in 1..n |->
                    1 + Cardinality({j \in 1..n :
                            \/ entries[j][field] < entries[i][field]
                            \/ entries[j][field] = entries[i][field] /\ j < i})], 1, n)
        place == SubSeq([k \in 1..n |-> CHOOSE i \in 1..n : rank[i] = k], 1, n)
    IN  IF \A i \in 1..(n - 1) : entries[i][field] <= entries[i + 1][field]
        THEN entries
        ELSE SubSeq([k \in 1..n |-> entries[place[k]]], 1, n)

\* element k is the total size of entries[lo..lo + k - 1]
RECURSIVE PrefixSizes(_, _, _)
PrefixSizes(entries, lo, hi) ==
    IF lo > hi THEN <<>>
    ELSE IF lo = hi THEN <<entries[lo].size>>
    ELSE LET mid == (lo + hi) \div 2
             left == PrefixSizes(entries, lo, mid)
             right == PrefixSizes(entries, mid + 1, hi)
             base == left[Len(left)]
         IN  left \o SubSeq([k \in 1..Len(right) |-> right[k] + base], 1, Len(right))

\* the while loop of cleanup over the sorted entries: it shifts an entry off
\* the front for as long as the counter, less the sizes shifted before, is
\* above the target and an entry is left
Evict(sorted, entries, size) ==
    LET n == Len(sorted)
        freed == <<0>> \o PrefixSizes(sorted, 1, n)
        shifted == Cardinality({k \in 0..(n - 1) :
                                   10 * (size - freed[k + 1]) > 7 * MAX_CACHE_SIZE})
        removed == {sorted[j].key : j \in 1..shifted}
    IN  [cache |-> SelectSeq(entries, LAMBDA x : x.key \notin removed),
         cacheSize |-> size - freed[shifted + 1]]

\* cleanup that removes the entries stored first, whatever their use since
cleanupOldestFirst(entries, size) ==
    Evict(StableSort(entries, "timestamp"), entries, size)

\* VideoCache.cleanup: least recently used first, down to 70% of the budget
cleanup(entries, size) == Evict(StableSort(entries, "lastAccess"), entries, size)

\* Map.set: a present key keeps its position
MapSet(entries, entry) ==
    LET i == KeyIndex(entries, entry.key, 1)
    IN  IF i = 0 THEN Append(entries, entry)
        ELSE [entries EXCEPT ![i] = entry]

\* VideoCache.set(url, range, data, headers); data is the file bytes
\* [dataStart, dataStart + size - 1], headers those of the writer's response,
\* seq the ordinal of this call among the calls of set (history only);
\* replaced is the position of the entry Map.set overwrote, evicted the
\* number of entries cleanup removed (both history only)
VideoCacheSet(entries, size, url, range, dataStart, dataLen, writer, t, seq) ==
    LET entry == [key |-> getCacheKey(url, range), dataStart |-> dataStart,
                  size |-> dataLen, headers |-> writer, timestamp |-> t,
                  lastAccess |-> t, seq |-> seq]
        c == IF size + entry.size > MAX_CACHE_SIZE
             THEN cleanup(entries, size)
             ELSE [cache |-> entries, cacheSize |-> size]
    IN  [cache |-> MapSet(c.cache, entry), cacheSize |-> c.cacheSize + entry.size,
         kept |-> c.cache, replaced |-> KeyIndex(c.cache, entry.key, 1),
         evicted |-> Len(entries) - Len(c.cache)]

\* VideoCache.findAdjacentSegments: the entries of the URL around the range,
\* each with the start and end read back from its key, sorted by start
findAdjacentSegments(entries, url, range) ==
    LET near == SelectSeq(entries, LAMBDA x :
                    /\ x.key.url = url
                    /\ x.key.segEnd >= range.start - SEGMENT_SIZE
                    /\ x.key.segStart <= range.end + SEGMENT_SIZE)
        segs == [i \in 1..Len(near) |->
                    [key |-> near[i].key, start |-> near[i].key.segStart,
                     end |-> near[i].key.segEnd, dataStart |-> near[i].dataStart,
                     size |-> near[i].size]]
    IN  StableSort(segs, "start")

\* tryBuildFromSegments: the for loop from segment i on; pieces are the
\* slices pushed so far, as intervals of file bytes
RECURSIVE BuildFrom(_, _, _, _, _)
BuildFrom(segments, i, range, currentPos, pieces) ==
    IF i > Len(segments)
    THEN IF currentPos <= range.end THEN [ok |-> FALSE, pieces |-> <<>>]
         ELSE [ok |-> TRUE, pieces |-> pieces]
    ELSE LET segment == segments[i]
             useStart == Max(0, currentPos - segment.start)
             useEnd == Min(segment.size - 1, range.end - segment.start)
             used == segment.end >= currentPos /\ useStart <= useEnd
             pos == IF used THEN segment.start + useEnd + 1 ELSE currentPos
             got == IF used
                    THEN Append(pieces, [from |-> segment.dataStart + useStart,
                                         len |-> useEnd - useStart + 1])
                    ELSE pieces
         IN  IF segment.start > currentPos THEN [ok |-> FALSE, pieces |-> <<>>]
             ELSE IF pos > range.end THEN [ok |-> TRUE, pieces |-> got]
             ELSE BuildFrom(segments, i + 1, range, pos, got)

tryBuildFromSegments(segments, range) ==
    IF segments = <<>> THEN [ok |-> FALSE, pieces |-> <<>>]
    ELSE BuildFrom(segments, 1, range, range.start, <<>>)

(***************************************************************************)
(* Cache-enabled server: state                                             *)
(***************************************************************************)
\* the segments a long playback leaves behind: MAX_CACHE_SIZE worth of
\* aligned whole segments, oldest first
WarmStart == 50 * SEGMENT_SIZE

WarmCache ==
    [i \in 1..(MAX_CACHE_SIZE \div SEGMENT_SIZE) |->
        [key |-> [url |-> "target", segStart |-> WarmStart + (i - 1) * SEGMENT_SIZE,
                  segEnd |-> WarmStart + i * SEGMENT_SIZE - 1],
         dataStart |-> WarmStart + (i - 1) * SEGMENT_SIZE,
         size |-> SEGMENT_SIZE, headers |-> "origin206", timestamp |-> 0,
         lastAccess |-> 0, seq |-> 0]]

\* the entries five requests of 100 MiB each leave behind: each is longer
\* than half a segment, so it was downloaded as asked and stored whole under
\* the key of its first segment; together they fill MAX_CACHE_SIZE
LongRequest == 100 * MiB

FullCache ==
    [i \in 1..(MAX_CACHE_SIZE \div LongRequest) |->
        [key |-> getCacheKey("target", [start |-> i * LongRequest,
                                        end |-> (i + 1) * LongRequest - 1]),
         dataStart |-> i * LongRequest,
         size |-> LongRequest, headers |-> "origin206", timestamp |-> 0,
         lastAccess |-> 0, seq |-> 0]]

\* the Range headers sent to the server when its cache is FullCache: from
\* the start of the first or the third entry to the end of the file, and
\* the first byte of the file
FullForms == {ClientForm("SE", LongRequest, BigFile - 1),
              ClientForm("SE", 3 * LongRequest, BigFile - 1),
              ClientForm("SE", 0, 0)}

IdleEr == [pc |-> "idle", form |-> ClientForm("SE", 0, 0), total |-> 0,
           range |-> NullRange, dr |-> [start |-> 0, end |-> 0], inCatch |-> FALSE,
           missAt |-> 0, status |-> 0, heads |-> 0, body |-> <<>>,
           prior |-> [seen |-> FALSE, body |-> <<>>]]

\* what the last call of VideoCache.set did (history only)
NoSet == [n |-> 0, size |-> 0, overflow |-> FALSE, existed |-> FALSE,
          raced |-> FALSE, evicted |-> 0, purged |-> FALSE]

CIdle ==
    /\ cache = <<>>
    /\ cacheSize = 0
    /\ er = [c \in Conns |-> IdleEr]
    /\ started = 0
    /\ lastSet = NoSet

\* the cache after a long playback, which counts as the first request
CWarm ==
    /\ cache = WarmCache
    /\ cacheSize = MAX_CACHE_SIZE
    /\ er = [c \in Conns |-> IdleEr]
    /\ started = 1
    /\ lastSet = NoSet

\* the cache filled to its budget by long requests
CFull ==
    /\ cache = FullCache
    /\ cacheSize = MAX_CACHE_SIZE
    /\ er = [c \in Conns |-> IdleEr]
    /\ started = 0
    /\ lastSet = NoSet

(***************************************************************************)
(* Cache-enabled server: handlers                                          *)
(***************************************************************************)
\* the handler returns: its locals are gone, the response stays
Returned(r) ==
    [r EXCEPT !.pc = "done", !.dr = IdleEr.dr, !.inCatch = FALSE, !.missAt = 0]

\* sendRangeResponse: 206 with the data, given as intervals of file bytes
sendRangeResponse(r, pieces) ==
    [Returned(r) EXCEPT !.status = 206, !.heads = @ + 1, !.body = pieces]

\* the catch of the request listener: writeHead(500) whatever was sent before
RouterError(r) ==
    [Returned(r) EXCEPT !.status = 500, !.heads = @ + 1, !.body = <<>>]

\* a rejection of handlePartialDownload: inside the try of handleRangeRequest
\* the catch starts handlePartialDownload once more, from the catch it
\* reaches the request listener
PartialRejected(r) ==
    IF r.inCatch THEN RouterError(r)
    ELSE [r EXCEPT !.pc = "partial", !.inCatch = TRUE]

\* the bytes of [range.start, range.end] a download of the whole file holds
BufferLen(range, total) == Max(0, Min(range.end, total - 1) - range.start + 1)

\* the call cache.set(url, range, data, headers) made for connection c;
\* raced: the entry overwritten was written after c had missed the cache
CacheSetBy(c, url, range, dataStart, dataLen, writer) ==
    LET r == VideoCacheSet(cache, cacheSize, url, range, dataStart, dataLen, writer,
                           now, lastSet.n + 1)
    IN  /\ cache' = r.cache
        /\ cacheSize' = r.cacheSize
        /\ lastSet' = [n |-> lastSet.n + 1, size |-> dataLen,
                       overflow |-> SumSizes(cache) + dataLen > MAX_CACHE_SIZE,
                       existed |-> r.replaced # 0,
                       raced |-> r.replaced # 0 /\ r.kept[r.replaced].seq > er[c].missAt,
                       evicted |-> r.evicted,
                       purged |-> lastSet.purged \/ r.evicted > 0]

\* the response an identical request completed with before (history only)
PriorResponse(f) ==
    IF \E d \in Conns : er[d].pc = "done" /\ er[d].status = 206 /\ er[d].form = f
    THEN [seen |-> TRUE,
          body |-> er[CHOOSE d \in Conns :
                        er[d].pc = "done" /\ er[d].status = 206 /\ er[d].form = f].body]
    ELSE IdleEr.prior

\* a request with a Range header for a video arrives; HEAD is sent upstream
EBegin ==
    /\ started < MaxRequests
    /\ \E c \in Conns, f \in CacheForms :
        /\ er[c].pc \in {"idle", "done"}
        /\ \A d \in Conns : d < c => er[d].pc \notin {"idle", "done"}
        /\ er' = [er EXCEPT ![c] = [IdleEr EXCEPT !.pc = "head", !.form = f,
                                                  !.prior = PriorResponse(f)]]
    /\ started' = started + 1
    /\ UNCHANGED <<cache, cacheSize, lastSet, now, pvars, svars, avars, hvars>>

\* a request with a Range header arrives while the cache is FullCache
EBeginFull ==
    /\ started < MaxRequests
    /\ \E c \in Conns, f \in FullForms :
        /\ er[c].pc \in {"idle", "done"}
        /\ \A d \in Conns : d < c => er[d].pc \notin {"idle", "done"}
        /\ er' = [er EXCEPT ![c] = [IdleEr EXCEPT !.pc = "head", !.form = f,
                                                  !.prior = PriorResponse(f)]]
    /\ started' = started + 1
    /\ UNCHANGED <<cache, cacheSize, lastSet, now, pvars, svars, avars, hvars>>

\* handleRangeRequest after the HEAD response, up to the GET sent upstream
EHeadResponse ==
    \E c \in Conns, totalSize \in {0, BigFile} :
        /\ er[c].pc = "head"
        /\ LET range == parseRangeEnh(HeaderOf(er[c].form), totalSize)
               r0 == [er[c] EXCEPT !.total = totalSize, !.range = range]
               segments == findAdjacentSegments(cache, "target", range)
               built == tryBuildFromSegments(segments, range)
               hit == KeyIndex(cache, getCacheKey("target", range), 1)
               size == range.end - range.start + 1
               downloadRange == IF 2 * size < SEGMENT_SIZE THEN getSegmentRange(range)
                                ELSE [start |-> range.start, end |-> range.end]
           IN  IF totalSize = 0 \/ ~range.ok
               THEN /\ er' = [er EXCEPT ![c] = RouterError(r0)]
                    /\ cache' = cache
               ELSE IF built.ok
               THEN /\ er' = [er EXCEPT ![c] = sendRangeResponse(r0, built.pieces)]
                    /\ cache' = cache
               ELSE IF hit # 0
               THEN /\ er' = [er EXCEPT ![c] = sendRangeResponse(r0,
                                  <<[from |-> cache[hit].dataStart, len |-> cache[hit].size]>>)]
                    /\ cache' = [cache EXCEPT ![hit].lastAccess = now]
               ELSE /\ er' = [er EXCEPT ![c] = [r0 EXCEPT !.pc = "get", !.dr = downloadRange,
                                                           !.missAt = lastSet.n]]
                    /\ cache' = cache
        /\ UNCHANGED <<cacheSize, started, lastSet, now, pvars, svars, avars, hvars>>

\* makeRequest('HEAD') rejects: the request listener answers
EHeadError ==
    \E c \in Conns :
        /\ er[c].pc = "head"
        /\ er' = [er EXCEPT ![c] = RouterError(er[c])]
        /\ UNCHANGED <<cache, cacheSize, started, lastSet, now, pvars, svars, avars, hvars>>

\* the upstream answers the GET for downloadRange
EGetResponse ==
    \E c \in Conns, status \in {206, 200, 416} :
        /\ er[c].pc = "get"
        /\ status = 206 => er[c].dr.start <= er[c].dr.end /\ er[c].dr.start < er[c].total
        /\ status = 416 => ~(er[c].dr.start <= er[c].dr.end /\ er[c].dr.start < er[c].total)
        /\ er' = [er EXCEPT ![c].pc = IF status = 206 THEN "body206" ELSE "partial"]
        /\ UNCHANGED <<cache, cacheSize, started, lastSet, now, pvars, svars, avars, hvars>>

\* makeRequest('GET') rejects: the catch falls back to handlePartialDownload
EGetError ==
    \E c \in Conns :
        /\ er[c].pc = "get"
        /\ er' = [er EXCEPT ![c].pc = "partial", ![c].inCatch = TRUE]
        /\ UNCHANGED <<cache, cacheSize, started, lastSet, now, pvars, svars, avars, hvars>>

\* 'end' of the 206 body: cache the download, slice the request out of it
EBody206End ==
    \E c \in Conns :
        /\ er[c].pc = "body206"
        /\ LET r == er[c]
               dataLen == Min(r.dr.end, r.total - 1) - r.dr.start + 1
               startOffset == r.range.start - r.dr.start
               endOffset == startOffset + (r.range.end - r.range.start)
               sliceLen == Max(0, Min(dataLen, endOffset + 1) - Min(dataLen, startOffset))
           IN  /\ CacheSetBy(c, "target", r.dr, r.dr.start, dataLen, "origin206")
               /\ er' = [er EXCEPT ![c] = sendRangeResponse(r,
                            IF sliceLen = 0 THEN <<>>
                            ELSE <<[from |-> r.dr.start + startOffset, len |-> sliceLen]>>)]
        /\ UNCHANGED <<started, now, pvars, svars, avars, hvars>>

\* the response to the GET without Range of handlePartialDownload
EPartialResponse ==
    \E c \in Conns, status \in {200, 301, 302, 500}, location \in BOOLEAN :
        /\ er[c].pc = "partial"
        /\ status \in {200, 500} => location
        /\ er' = [er EXCEPT ![c] =
                    IF status \in {301, 302}
                    THEN IF location THEN [er[c] EXCEPT !.pc = "redirect"]
                         ELSE PartialRejected(er[c])
                    ELSE IF status # 200 THEN PartialRejected(er[c])
                    ELSE [er[c] EXCEPT !.pc = "partialBody"]]
        /\ UNCHANGED <<cache, cacheSize, started, lastSet, now, pvars, svars, avars, hvars>>

\* 'error' of the request or of the body of handlePartialDownload
EPartialError ==
    \E c \in Conns :
        /\ er[c].pc \in {"partial", "partialBody"}
        /\ er' = [er EXCEPT ![c] = PartialRejected(er[c])]
        /\ UNCHANGED <<cache, cacheSize, started, lastSet, now, pvars, svars, avars, hvars>>

\* the 'data' and 'end' listeners of handlePartialDownload over the body of
\* the whole file: the buffer collects the bytes of the range; an empty
\* target is met by the first chunk
EPartialBody ==
    \E c \in Conns :
        /\ er[c].pc = "partialBody"
        /\ LET r == er[c]
               targetBytes == r.range.end - r.range.start + 1
               len == BufferLen(r.range, r.total)
           IN  IF len > 0 \/ targetBytes <= 0
               THEN /\ CacheSetBy(c, "target", r.range, r.range.start, len, "origin200")
                    /\ er' = [er EXCEPT ![c] = sendRangeResponse(r,
                                 IF len = 0 THEN <<>>
                                 ELSE <<[from |-> r.range.start, len |-> len]>>)]
               ELSE /\ er' = [er EXCEPT ![c] = PartialRejected(r)]
                    /\ UNCHANGED <<cache, cacheSize, lastSet>>
        /\ UNCHANGED <<started, now, pvars, svars, avars, hvars>>

\* the response of the redirect target to the GET of handleRedirect
ERedirectResponse ==
    \E c \in Conns, status \in {200, 206, 403} :
        /\ er[c].pc = "redirect"
        /\ er' = [er EXCEPT ![c] = IF status = 200 THEN [er[c] EXCEPT !.pc = "redirectBody"]
                                   ELSE PartialRejected(er[c])]
        /\ UNCHANGED <<cache, cacheSize, started, lastSet, now, pvars, svars, avars, hvars>>

\* 'error' of the request or of the body of handleRedirect
ERedirectError ==
    \E c \in Conns :
        /\ er[c].pc \in {"redirect", "redirectBody"}
        /\ er' = [er EXCEPT ![c] = PartialRejected(er[c])]
        /\ UNCHANGED <<cache, cacheSize, started, lastSet, now, pvars, svars, avars, hvars>>

\* the 'data' and 'end' listeners of handleRedirect, then the .then of
\* handlePartialDownload
ERedirectBody ==
    \E c \in Conns :
        /\ er[c].pc = "redirectBody"
        /\ LET r == er[c]
               targetBytes == r.range.end - r.range.start + 1
               len == BufferLen(r.range, r.total)
           IN  IF len > 0 \/ targetBytes <= 0
               THEN /\ CacheSetBy(c, "redirect_", r.range, r.range.start, len, "cdn200")
                    /\ er' = [er EXCEPT ![c] = sendRangeResponse(r,
                                 IF len = 0 THEN <<>>
                                 ELSE <<[from |-> r.range.start, len |-> len]>>)]
               ELSE /\ er' = [er EXCEPT ![c] = PartialRejected(r)]
                    /\ UNCHANGED <<cache, cacheSize, lastSet>>
        /\ UNCHANGED <<started, now, pvars, svars, avars, hvars>>

(***************************************************************************)
(* The headers of the requests sent upstream                               *)
(***************************************************************************)
\* the headers a client may add to its Range request
ClientHeaderNames == {"authorization", "cookie", "origin", "referer"}

TARGET_HOST == "webdav-1839857505.pd1.123pan.cn"
FixedUserAgent == "Mozilla/5.0 (Windows NT 10.0; Win64; x64) AppleWebKit/537.36"

NoClient == [arrived |-> FALSE, headers |-> {}, form |-> ClientForm("SE", 0, 0)]

HIdle ==
    /\ hreq = NoClient
    /\ hout = <<>>

\* a header: s and e are the numbers of a Range value the proxy writes
Header(name, value, s, e) == [name |-> name, value |-> value, s |-> s, e |-> e]

\* req.headers: the client's Range header and whatever else it sent, each
\* with the client's value
ClientHeaders(c) ==
    {Header(n, "client", 0, 0) : n \in c.headers \cup {"range"}}

\* { ...req.headers, host: TARGET_HOST } without origin and referer
OriginHeaders(c) ==
    {h \in ClientHeaders(c) : h.name \notin {"host", "origin", "referer"}}
        \cup {Header("host", TARGET_HOST, 0, 0)}

\* the CDN request that hands the client's headers on
CdnRangeHeadersSpread(range) ==
    ClientHeaders(hreq) \cup {Header("User-Agent", FixedUserAgent, 0, 0),
                              Header("Range", "bytes=", range.start, range.end)}

\* options.headers of handleRedirectRange
CdnRangeHeaders(range) ==
    {Header("User-Agent", FixedUserAgent, 0, 0),
     Header("Range", "bytes=", range.start, range.end)}

\* options.headers of preloadFromCDN
PreloadCdnHeaders(startByte, endByte) ==
    {Header("User-Agent", FixedUserAgent, 0, 0),
     Header("Range", "bytes=", startByte, endByte)}

UpstreamRequest(to, by, headers) == [to |-> to, by |-> by, headers |-> headers]

\* a Range request with its headers arrives
HNewRequest ==
    /\ \E hs \in SUBSET ClientHeaderNames, f \in StreamForms :
          hreq' = [arrived |-> TRUE, headers |-> hs, form |-> f]
    /\ hout' = <<>>
    /\ UNCHANGED <<svars, now, pvars, cvars, avars>>

\* the Range GET of handleStreamingRangeRequest to the origin
HOriginRequest ==
    /\ hreq.arrived
    /\ Len(hout) < MaxRequests
    /\ parseRange(HeaderOf(hreq.form), fileSize).ok
    /\ hout' = Append(hout, UpstreamRequest("origin", "range", OriginHeaders(hreq)))
    /\ UNCHANGED <<hreq, svars, now, pvars, cvars, avars>>

\* the GET of handleRedirectRange to the redirect URL
HRedirectRange ==
    /\ hreq.arrived
    /\ Len(hout) < MaxRequests
    /\ LET range == parseRange(HeaderOf(hreq.form), fileSize)
       IN  /\ range.ok
           /\ hout' = Append(hout, UpstreamRequest("cdn", "range", CdnRangeHeaders(range)))
    /\ UNCHANGED <<hreq, svars, now, pvars, cvars, avars>>

\* the GET of preloadFromCDN to the redirect URL, for a /api/preload request
\* that carries the same client headers
HPreloadCdn ==
    /\ hreq.arrived
    /\ Len(hout) < MaxRequests
    /\ \E startByte \in PreloadStarts :
          LET endByte == Min(startByte + PRELOAD_SIZE - 1, fileSize - 1)
          IN  hout' = Append(hout, UpstreamRequest("cdn", "preload",
                                                  PreloadCdnHeaders(startByte, endByte)))
    /\ UNCHANGED <<hreq, svars, now, pvars, cvars, avars>>

(***************************************************************************)
(* Streaming server: the router, /api/stats, /api/preload, OPTIONS         *)
(***************************************************************************)
\* the paths asked: the statistics, a preload with and without its path
\* parameter, and a file that is not served by the Range handler
ApiUrls == {"stats", "preload", "preloadNoPath", "file"}

Methods == {"GET", "OPTIONS"}

\* status 0: nothing written; body: what res.end or pipe carried; ctype:
\* a Content-Type header besides the CORS headers; the ages are those of the
\* cache entries the handler used, -1 when it used none, n the number of
\* requests accepted so far (history only)
IdlePl == [pc |-> "idle", method |-> "GET", url |-> "stats", start |-> 0, total |-> 0,
           end |-> 0, status |-> 0, heads |-> 0, body |-> "none", ctype |-> FALSE,
           preAge |-> -1, metaAge |-> -1, redirAge |-> -1, n |-> 0, said |-> "none",
           server |-> "streaming"]

AIdle ==
    /\ preload = [k \in PreloadStarts |-> NoEntry]
    /\ pl = IdlePl

\* res.writeHead(status, headers); res.end(body)
Respond(r, status, ctype, body) ==
    [r EXCEPT !.pc = "done", !.status = status, !.heads = @ + 1, !.ctype = ctype,
              !.body = body]

\* the catch of handlePreloadRequest
PreloadCatch(r) == Respond(r, 500, FALSE, "json")

\* the preload cache entry of the key, when it may be served
getCachedPreload(k) == preload[k].present /\ now - preload[k].timestamp < PRELOAD_TTL

\* handlePreloadRequest once totalSize is known, up to its next await
PreloadWithSize(r0, totalSize) ==
    LET r == [r0 EXCEPT !.total = totalSize,
                        !.end = Min(r0.start + PRELOAD_SIZE - 1, totalSize - 1)]
    IN  IF getCachedRedirect
        THEN [r EXCEPT !.pc = "cdn", !.redirAge = now - redirects.timestamp]
        ELSE [r EXCEPT !.pc = "get"]

\* a request that is not a video Range request arrives at the router
ARequest ==
    /\ pl.pc \in {"idle", "done"}
    /\ pl.n < MaxRequests
    /\ \E m \in Methods, u \in ApiUrls, k \in PreloadStarts :
          LET r == [IdlePl EXCEPT !.method = m, !.url = u, !.n = pl.n + 1,
                                  !.start = IF u = "preload" THEN k ELSE 0]
          IN  pl' = CASE u = "stats" -> Respond(r, 200, TRUE, "json")
                      [] u = "preloadNoPath" -> Respond(r, 400, FALSE, "json")
                      [] u = "preload" ->
                            IF getCachedPreload(k)
                            THEN Respond([r EXCEPT !.preAge = now - preload[k].timestamp,
                                                   !.said = "cached"],
                                         200, TRUE, "json")
                            ELSE IF getCachedMetadata
                            THEN PreloadWithSize(
                                     [r EXCEPT !.metaAge = now - metadata.timestamp],
                                     ContentLength(metadata.data))
                            ELSE [r EXCEPT !.pc = "head"]
                      [] u = "file" /\ m = "OPTIONS" -> Respond(r, 200, FALSE, "none")
                      [] OTHER -> [r EXCEPT !.pc = "regular"]
    /\ UNCHANGED <<preload, svars, now, pvars, cvars, hvars>>

\* the HEAD response of handlePreloadRequest; its headers are cached
PHeadResponse ==
    /\ pl.pc = "head"
    /\ \E data \in {fileSize, -1} :
          /\ metadata' = [present |-> TRUE, data |-> data, timestamp |-> now]
          /\ pl' = PreloadWithSize(pl, ContentLength(data))
    /\ UNCHANGED <<fileSize, rq, res, up, redirects, preload, now, pvars, cvars, hvars>>

PHeadError ==
    /\ pl.pc = "head"
    /\ pl' = PreloadCatch(pl)
    /\ UNCHANGED <<preload, svars, now, pvars, cvars, hvars>>

\* the answer to the GET that looks for a redirect: a 301/302 is cached with
\* whatever Location it carries, any other answer is left unread
PGetResponse ==
    /\ pl.pc = "get"
    /\ \E status \in {206, 301, 302, 404}, location \in BOOLEAN :
          /\ status \notin {301, 302} => location
          /\ IF status \in {301, 302}
             THEN /\ redirects' = [present |-> TRUE, data |-> IF location THEN 1 ELSE 0,
                                   timestamp |-> now]
                  /\ pl' = [pl EXCEPT !.pc = IF location THEN "cdn" ELSE "up"]
             ELSE /\ redirects' = redirects
                  /\ pl' = [pl EXCEPT !.pc = "up"]
    /\ UNCHANGED <<fileSize, rq, res, up, metadata, preload, now, pvars, cvars, hvars>>

PGetError ==
    /\ pl.pc = "get"
    /\ pl' = PreloadCatch(pl)
    /\ UNCHANGED <<preload, svars, now, pvars, cvars, hvars>>

\* a server that honours Range can answer bytes=start-end with a 206
PreloadSatisfiable(r) == 0 <= r.start /\ r.start <= r.end /\ r.start < fileSize

\* the response to the GET of preloadFromCDN or preloadFromUpstream
PFetchResponse ==
    /\ pl.pc \in {"cdn", "up"}
    /\ \E status \in {206, 200, 416} :
          /\ status = 206 => PreloadSatisfiable(pl)
          /\ status = 416 => ~PreloadSatisfiable(pl)
          /\ pl' = IF status = 206
                   THEN [pl EXCEPT !.pc = IF pl.pc = "cdn" THEN "cdnBody" ELSE "upBody"]
                   ELSE PreloadCatch(pl)
    /\ UNCHANGED <<preload, svars, now, pvars, cvars, hvars>>

\* the handler answers at 'end' and leaves the chunks unstored
PFetchEndUnstored ==
    /\ pl.pc \in {"cdnBody", "upBody"}
    /\ pl' = Respond([pl EXCEPT !.said = "preloaded"], 200, TRUE, "json")
    /\ UNCHANGED <<preload, svars, now, pvars, cvars, hvars>>

\* 'end' of the 206 body: the chunks are stored, the handler answers
PFetchEnd ==
    /\ pl.pc \in {"cdnBody", "upBody"}
    /\ preload' = [preload EXCEPT ![pl.start] =
                      [present |-> TRUE,
                       data |-> Min(pl.end, fileSize - 1) - pl.start + 1,
                       timestamp |-> now]]
    /\ pl' = Respond([pl EXCEPT !.said = "preloaded"], 200, TRUE, "json")
    /\ UNCHANGED <<svars, now, pvars, cvars, hvars>>

\* 'error' of the request or of the body
PFetchError ==
    /\ pl.pc \in {"cdn", "up", "cdnBody", "upBody"}
    /\ pl' = PreloadCatch(pl)
    /\ UNCHANGED <<preload, svars, now, pvars, cvars, hvars>>

\* handleRegularRequest: the upstream status and headers are written and the
\* body is piped
ARegularResponse ==
    /\ pl.pc = "regular"
    /\ \E status \in {200, 404} :
          pl' = Respond(pl, status, TRUE, "piped")
    /\ UNCHANGED <<preload, svars, now, pvars, cvars, hvars>>

ARegularError ==
    /\ pl.pc = "regular"
    /\ pl' = Respond(pl, 500, FALSE, "json")
    /\ UNCHANGED <<preload, svars, now, pvars, cvars, hvars>>

(***************************************************************************)
(* The pass-through proxy in its three versions                            *)
(***************************************************************************)
\* handleRegularRequest of the streaming server and of the cache-enabled
\* server, and the request listener of the plain proxy
PassServers == {"streaming", "enhanced", "plain"}

\* the methods passed through (OPTIONS is answered by the router)
PassMethods == {"GET", "HEAD", "PROPFIND"}

\* a request is passed through: https.request(...) and req.pipe(proxyReq)
XRequest ==
    /\ pl.pc \in {"idle", "done", "open", "thrown"}
    /\ pl.n < MaxRequests
    /\ \E m \in PassMethods, sv \in PassServers :
          pl' = [IdlePl EXCEPT !.pc = "regular", !.method = m, !.url = "file",
                               !.server = sv, !.n = pl.n + 1]
    /\ UNCHANGED <<preload, svars, now, pvars, cvars, hvars>>

\* the response callback: res.writeHead(proxyRes.statusCode, ...) and
\* proxyRes.pipe(res)
XResponse ==
    /\ pl.pc = "regular"
    /\ \E status \in {200, 404} :
          pl' = [pl EXCEPT !.pc = "piping", !.status = status, !.heads = @ + 1,
                           !.ctype = TRUE, !.body = "piped"]
    /\ UNCHANGED <<preload, svars, now, pvars, cvars, hvars>>

\* 'end' of the upstream body: the pipe ends the client response
XBodyEnd ==
    /\ pl.pc = "piping"
    /\ pl' = [pl EXCEPT !.pc = "done"]
    /\ UNCHANGED <<preload, svars, now, pvars, cvars, hvars>>

\* res.writeHead(status, CORS_HEADERS) with no test of res.headersSent: once
\* the head is out the call throws (ERR_HTTP_HEADERS_SENT) in the listener
WriteHeadAnyway(r, status) ==
    IF r.heads = 0 THEN Respond(r, status, FALSE, "json")
    ELSE [r EXCEPT !.pc = "thrown", !.heads = @ + 1]

\* 'error' of proxyReq, before or after the upstream response: the
\* streaming server answers 500 only when no head was sent and otherwise
\* leaves the response as it is, the other two call writeHead(500)
XRequestError ==
    /\ pl.pc \in {"regular", "piping"}
    /\ pl' = IF pl.server = "streaming"
             THEN IF pl.heads = 0 THEN Respond(pl, 500, FALSE, "json")
                  ELSE [pl EXCEPT !.pc = "open"]
             ELSE WriteHeadAnyway(pl, 500)
    /\ UNCHANGED <<preload, svars, now, pvars, cvars, hvars>>

\* 'timeout' of the client request in the plain proxy: proxyReq.destroy()
\* and res.writeHead(408)
XClientTimeout ==
    /\ pl.pc \in {"regular", "piping"}
    /\ pl.server = "plain"
    /\ pl' = WriteHeadAnyway(pl, 408)
    /\ UNCHANGED <<preload, svars, now, pvars, cvars, hvars>>

\* the clock does not run past this
Horizon == REDIRECT_TTL + MaxTime + 1

\* the instants around the expiry of an entry stored at t
Around(entry, ttl) ==
    IF entry.present
    THEN {entry.timestamp + ttl - 1, entry.timestamp + ttl, entry.timestamp + ttl + 1}
    ELSE {}

\* time passes until an entry is about to expire, expires, or has expired
Elapse ==
    /\ \E t \in Around(metadata, METADATA_TTL) \cup Around(redirects, REDIRECT_TTL)
                \cup UNION {Around(preload[k], PRELOAD_TTL) : k \in PreloadStarts} :
          /\ t > now
          /\ t <= Horizon
          /\ now' = t
    /\ UNCHANGED <<svars, pvars, cvars, avars, hvars>>

(***************************************************************************)
(* Specifications                                                          *)
(***************************************************************************)
InitParse == PInit /\ SIdle /\ CIdle /\ AIdle /\ HIdle /\ now = 0

NextParse == ParseStreaming \/ ParseEnhanced

SpecParse == InitParse /\ [][NextParse]_vars

InitStream == PIdle /\ SInit /\ CIdle /\ AIdle /\ HIdle /\ now = 0

NextStream ==
    \/ SNewRequest
    \/ SHeadResponse
    \/ SHeadError
    \/ SOriginResponse
    \/ SOriginError
    \/ SCdnResponse
    \/ SCdnError
    \/ SPartialResponse
    \/ SPartialError
    \/ SRetryResponse
    \/ SRetryError
    \/ SChunk
    \/ SEnd
    \/ SBodyError
    \/ SClientClose
    \/ STimeout
    \/ Tick

SpecStream == InitStream /\ [][NextStream]_vars

\* the streaming server over the lifetimes of its cache entries
InitRedirect == PIdle /\ SIdle /\ CIdle /\ AIdle /\ HIdle /\ now = 0

\* the clients stay connected and the upstreams answer
NextRedirect ==
    \/ SNewRequest
    \/ SHeadResponse
    \/ SHeadError
    \/ SOriginResponse
    \/ SOriginError
    \/ SCdnResponse
    \/ SCdnError
    \/ SPartialResponse
    \/ SPartialError
    \/ SRetryResponse
    \/ SRetryError
    \/ SChunk
    \/ SEnd
    \/ SBodyError
    \/ Elapse
    \/ Sweep

SpecRedirect == InitRedirect /\ [][NextRedirect]_vars

InitCache == PIdle /\ SIdle /\ CIdle /\ AIdle /\ HIdle /\ now = 0

NextCache ==
    \/ EBegin
    \/ EHeadResponse
    \/ EHeadError
    \/ EGetResponse
    \/ EGetError
    \/ EBody206End
    \/ EPartialResponse
    \/ EPartialError
    \/ EPartialBody
    \/ ERedirectResponse
    \/ ERedirectError
    \/ ERedirectBody
    \/ Tick

SpecCache == InitCache /\ [][NextCache]_vars

InitWarm == PIdle /\ SIdle /\ CWarm /\ AIdle /\ HIdle /\ now = 0

SpecWarm == InitWarm /\ [][NextCache]_vars

\* the same handlers on a cache filled to its budget by five long requests,
\* asked for the rest of the file from a cached offset or for a byte that
\* is not cached
InitFull == PIdle /\ SIdle /\ CFull /\ AIdle /\ HIdle /\ now = 0

NextFull ==
    \/ EBeginFull
    \/ EHeadResponse
    \/ EHeadError
    \/ EGetResponse
    \/ EGetError
    \/ EBody206End
    \/ EPartialResponse
    \/ EPartialError
    \/ EPartialBody
    \/ ERedirectResponse
    \/ ERedirectError
    \/ ERedirectBody
    \/ Tick

SpecFull == InitFull /\ [][NextFull]_vars

InitApi == PIdle /\ SIdle /\ CIdle /\ AIdle /\ HIdle /\ now = 0

NextApi ==
    \/ ARequest
    \/ PHeadResponse
    \/ PHeadError
    \/ PGetResponse
    \/ PGetError
    \/ PFetchResponse
    \/ PFetchEnd
    \/ PFetchError
    \/ ARegularResponse
    \/ ARegularError
    \/ Elapse
    \/ Sweep

SpecApi == InitApi /\ [][NextApi]_vars

\* the pass-through proxies
InitPass == PIdle /\ SIdle /\ CIdle /\ AIdle /\ HIdle /\ now = 0

NextPass ==
    \/ XRequest
    \/ XResponse
    \/ XBodyEnd
    \/ XRequestError
    \/ XClientTimeout
    \/ Tick

SpecPass == InitPass /\ [][NextPass]_vars

\* the requests the streaming server builds for one client request
InitHdr == PIdle /\ SIdle /\ CIdle /\ AIdle /\ HIdle /\ now = 0

NextHdr == HNewRequest \/ HOriginRequest \/ HRedirectRange \/ HPreloadCdn

SpecHdr == InitHdr /\ [][NextHdr]_vars

(***************************************************************************)
(* Properties of the Range parser                                          *)
(***************************************************************************)
\* the three documented header forms, written with decimal numbers
DocumentedForm(f) == f.unit = "bytes=" /\ f.form \in {"SE", "S", "N"}

\* C3: every range parseRange returns for a file of size total > 0 satisfies
\* 0 <= start <= end < total (an end at or past the file size is clamped, a
\* start past the end or past the file yields no usable range) - for the
\* parser of the streaming server and the parser of the cache-enabled server.
C3_RangeWithinFile ==
    /\ ("streaming" \in pDone /\ DocumentedForm(pForm) /\ pTotal > 0 /\ pRange.ok) =>
          /\ ~pRange.nanS /\ ~pRange.nanE
          /\ 0 <= pRange.start
          /\ pRange.start <= pRange.end
          /\ pRange.end < pTotal
    /\ ("enhanced" \in pDone /\ DocumentedForm(pForm) /\ pTotal > 0 /\ pRangeE.ok) =>
          /\ ~pRangeE.nanS /\ ~pRangeE.nanE
          /\ 0 <= pRangeE.start
          /\ pRangeE.start <= pRangeE.end
          /\ pRangeE.end < pTotal

\* the interval a documented header denotes before expansion
FirstYield(f, total) ==
    CASE f.form = "SE" -> <<f.s, f.e>>
      [] f.form = "S" -> <<f.s, total - 1>>
      [] f.form = "N" -> <<Max(0, total - f.s), total - 1>>

\* C4: for bytes=S-E, bytes=S- and bytes=-N and every total > 0 parseRange
\* yields [S,E], [S,total-1], [max(0,total-N),total-1] and then expands:
\* req < 5 MiB: end = min(start + 10 MiB - 1, total-1), originalEnd = parsed
\* end; 5 MiB <= req < 20 MiB: end = min(start + max(1.5 req, 10 MiB) - 1,
\* total-1) only when that exceeds the parsed end, originalEnd remembered;
\* otherwise the range is returned unchanged and unmarked.
C4_ParseThenExpand ==
    ("streaming" \in pDone /\ DocumentedForm(pForm) /\ pTotal > 0) =>
        LET y == FirstYield(pForm, pTotal)
            req == y[2] - y[1] + 1
            \* twice the end the policy asks for
            small2 == 2 * Min(y[1] + OPTIMAL_CHUNK_SIZE - 1, pTotal - 1)
            medium2 == Min(2 * y[1] + Max(3 * req, 2 * OPTIMAL_CHUNK_SIZE) - 2,
                           2 * (pTotal - 1))
            end2 == 2 * pRange.end + (IF pRange.half THEN 1 ELSE 0)
        IN  /\ pRange.ok
            /\ ~pRange.nanS /\ ~pRange.nanE
            /\ pRange.start = y[1]
            /\ req < MIN_CHUNK_SIZE =>
                  pRange.optimized /\ end2 = small2 /\ pRange.originalEnd = y[2]
            /\ (req >= MIN_CHUNK_SIZE /\ req < MEDIUM_LIMIT /\ medium2 > 2 * y[2]) =>
                  pRange.optimized /\ end2 = medium2 /\ pRange.originalEnd = y[2]
            /\ (req >= MEDIUM_LIMIT
                \/ (req >= MIN_CHUNK_SIZE /\ medium2 <= 2 * y[2])) =>
                  ~pRange.optimized /\ end2 = 2 * y[2]

\* a medium request that was expanded by half its size, short of the file end
C4_Witness ==
    /\ "streaming" \in pDone
    /\ pForm.form = "SE" /\ pForm.unit = "bytes="
    /\ pForm.e - pForm.s + 1 >= MIN_CHUNK_SIZE
    /\ 3 * (pForm.e - pForm.s + 1) > 2 * OPTIMAL_CHUNK_SIZE
    /\ pRange.optimized
    /\ pRange.originalEnd = pForm.e
    /\ pRange.end < pTotal - 1

(***************************************************************************)
(* Properties of the streaming server                                      *)
(***************************************************************************)
\* the number of bytes the client asked for, as the parser recorded it
OwedBytes(range) ==
    IF range.optimized THEN range.originalEnd - range.start + 1
    ELSE range.end - range.start + 1

\* the client asked for bytes that exist: 0 <= start <= requested end < total
ClientRangeValid(r) ==
    /\ r.range.ok /\ ~r.range.nanS /\ ~r.range.nanE
    /\ 0 <= r.range.start
    /\ OwedBytes(r.range) >= 1
    /\ r.range.start + OwedBytes(r.range) <= r.total

\* C1: a Range request answered 206 (origin passthrough, sliced 200 body or
\* CDN) never gets more than originalEnd - start + 1 bytes when the range
\* was expanded (end - start + 1 otherwise), and gets exactly that many when
\* the response completes without an upstream failure.
C1_ClientByteCount ==
    (res.status = 206 /\ ClientRangeValid(rq)) =>
        /\ res.written <= OwedBytes(rq.range)
        /\ (rq.pc = "closed" /\ rq.fail = "none" /\ res.ended) =>
              res.written = OwedBytes(rq.range)

\* C2: on an origin 206 for an expanded range the client is told
\* Content-Length = originalEnd - start + 1 and a Content-Range ending at
\* originalEnd, never gets more bytes than that, and once it has them the
\* upstream reader is destroyed and the response ended - also for
\* originalEnd = 0.
C2_ExpandedTruncation ==
    (up.from = "origin" /\ up.status = 206 /\ rq.range.optimized /\ ClientRangeValid(rq)) =>
        LET originalSize == rq.range.originalEnd - rq.range.start + 1
        IN  /\ res.status = 206
            /\ res.len = originalSize
            /\ res.rangeEnd = rq.range.originalEnd
            /\ res.written <= originalSize
            /\ res.written = originalSize => up.state = "destroyed" /\ res.ended
            /\ rq.pc = "closed" /\ rq.fail = "none" => res.ended

\* C5: with no header sent yet, an unparsable Range is answered 400, a file
\* size of 0 or a start at or past the file size 416, and an origin or CDN
\* status outside 2xx/3xx 502.
C5_ErrorStatuses ==
    /\ (rq.pc = "closed" /\ rq.fail = "badrange") => res.status = 400
    /\ (rq.pc = "closed" /\ rq.fail = "size0") => res.status = 416
    /\ (res.status # 0 /\ rq.range.ok /\ rq.range.start >= rq.total) => res.status = 416
    /\ (rq.pc = "closed" /\ rq.fail \in {"upstatus", "cdnstatus"}) => res.status = 502

(***************************************************************************)
(* Properties of the segment cache                                         *)
(***************************************************************************)
\* an entry holds the bytes of one aligned segment, or of its start
SegmentShaped(entry) ==
    /\ entry.dataStart % SEGMENT_SIZE = 0
    /\ entry.size >= 1
    /\ entry.size <= SEGMENT_SIZE

\* C6: in every reachable state each cached entry holds bytes that begin at
\* a multiple of SEGMENT_SIZE and number between 1 and SEGMENT_SIZE,
\* whichever download inserted it
C6_AlignedSegments == \A i \in 1..Len(cache) : SegmentShaped(cache[i])

\* C7: at every moment the sizes of the entries held add up to at most
\* MAX_CACHE_SIZE
C7_TotalWithinCap == SumSizes(cache) <= MAX_CACHE_SIZE

\* C8: once an insertion that would push the total above MAX_CACHE_SIZE has
\* completed, the total is at most 0.7 * MAX_CACHE_SIZE; stated here for
\* caches of well-formed segments only, the case of the claim's own example
\* (the 251st segment of 2 MiB)
C8_EvictionRestoresTarget ==
    (lastSet.overflow /\ \A i \in 1..Len(cache) : SegmentShaped(cache[i]))
        => 10 * SumSizes(cache) <= 7 * MAX_CACHE_SIZE

\* C9: the cache never holds two entries for the same URL and segment
\* start, whatever the end offsets of the ranges that inserted them
C9_OneEntryPerSegment ==
    \A i, j \in 1..Len(cache) :
        (cache[i].key.url = cache[j].key.url /\ cache[i].key.segStart = cache[j].key.segStart)
            => i = j

\* C10: when a request that missed the cache finishes its download after
\* another request has written the same key meanwhile, the entries held
\* stay as they are (bytes, headers, timestamps) and the size counter keeps
\* its value
C10_FirstWriterWins ==
    [][(lastSet'.n # lastSet.n /\ lastSet'.raced)
         => /\ cacheSize' = cacheSize
            /\ \A i \in 1..Len(cache), j \in 1..Len(cache') :
                  cache[i].key = cache'[j].key => cache[i] = cache'[j]]_vars

\* the request has sent a request upstream and waits for its answer
AwaitsUpstream(r) ==
    r.pc \in {"head", "get", "body206", "partial", "partialBody", "redirect", "redirectBody"}

\* C11: a request that repeats one completed with a 206 before, with no
\* eviction since, sends nothing upstream (no HEAD, no GET) and is answered
\* with the same bytes
C11_RepeatServedFromCache ==
    \A c \in Conns :
        (er[c].prior.seen /\ ~lastSet.purged)
            => /\ ~AwaitsUpstream(er[c])
               /\ er[c].pc = "done" => (er[c].status = 206 /\ er[c].body = er[c].prior.body)

(***************************************************************************)
(* Properties of the streaming server's caches and router                  *)
(***************************************************************************)
\* C12: a metadata, redirect or preload entry answers a request only while
\* its age is below its lifetime; older entries count as absent although
\* the sweeper has not removed them
C12_FreshEntriesOnly ==
    /\ pl.metaAge # -1 => pl.metaAge < METADATA_TTL
    /\ pl.redirAge # -1 => pl.redirAge < REDIRECT_TTL
    /\ pl.preAge # -1 => pl.preAge < PRELOAD_TTL

\* a preload request met the metadata entry at the age of its lifetime,
\* still in the cache, and sent a HEAD upstream
C12_Witness ==
    /\ pl.pc = "head"
    /\ metadata.present
    /\ now - metadata.timestamp = METADATA_TTL

\* the request is waiting for, or reading from, the origin
AtOrigin(r) == r.pc \in {"head", "originGet", "pdReq", "retryGet", "x206", "p206", "pd200"}

\* C13: a Range request that arrives while the redirect entry is unexpired
\* sends nothing to the origin, neither HEAD nor GET
C13_RedirectSkipsOrigin == rq.redir => ~AtOrigin(rq)

\* C14: once a request has left its handler and nothing more can happen
\* upstream, the client response has been ended
C14_ResponseEnded == rq.pc = "closed" => res.ended

\* C15: for a Range request for bytes that exist, the body bytes read from
\* upstream exceed the bytes written to the client by at most one segment
\* (as long as no single chunk is itself larger than a segment)
C15_BoundedOverread ==
    (ClientRangeValid(rq) /\ ~up.big) => up.downloaded <= res.written + SEGMENT_SIZE

(***************************************************************************)
(* Properties of the handlers' use of memory and of upstream               *)
(***************************************************************************)
\* C16: no buffer a handler builds for a response spans more than the chunk
\* being read and one segment, whatever the size of the range (a chunk is
\* smaller than a segment; each piece of a body was one Buffer)
C16_NoAccumulation ==
    \A c \in Conns :
        \A i \in 1..Len(er[c].body) : er[c].body[i].len <= 2 * SEGMENT_SIZE

\* C17: once the client has disconnected, at most the chunk that meets the
\* failed write is handled; the upstream reader is destroyed then
C17_StopsOnDisconnect == res.late <= 1

\* C18: a request whose upstream went silent for the timeout is terminal:
\* the upstream request is closed and the client response ended, with a
\* 504 when no header had been sent
C18_TimeoutTerminates ==
    rq.pc = "stalled" =>
        /\ up.state # "open"
        /\ res.ended
        /\ res.status \in {504, 206}
        /\ ~rq.active

(***************************************************************************)
(* Properties of the router and of the requests sent to the CDN            *)
(***************************************************************************)
\* C19: an OPTIONS request, whatever its path, is answered at once with
\* status 200, the CORS headers alone and no body; nothing goes upstream
C19_OptionsCorsOnly ==
    (pl.method = "OPTIONS" /\ pl.pc # "idle") =>
        /\ pl.pc = "done"
        /\ pl.status = 200
        /\ ~pl.ctype
        /\ pl.body = "none"

\* the requests sent to the redirect URL
CdnRequests == {hout[i] : i \in {j \in 1..Len(hout) : hout[j].to = "cdn"}}

\* C20: a request to the CDN carries exactly the fixed User-Agent and a
\* Range the proxy wrote, no header with a value of the client; it is fixed
\* by the range alone, whatever other headers the client sent
C20_NoClientHeaderToCdn ==
    \A q \in CdnRequests :
        /\ {h.name : h \in q.headers} = {"User-Agent", "Range"}
        /\ \A h \in q.headers :
              /\ h.value # "client"
              /\ h.name = "User-Agent" => h.value = FixedUserAgent
        /\ q.by = "range" =>
              LET range == parseRange(HeaderOf(hreq.form), fileSize)
              IN  q.headers = {Header("User-Agent", FixedUserAgent, 0, 0),
                               Header("Range", "bytes=", range.start, range.end)}

\* a client sent Authorization and Cookie, and both a redirected Range
\* request and a preload went to the CDN
C20_Witness ==
    /\ {"authorization", "cookie"} \subseteq hreq.headers
    /\ \E q \in CdnRequests : q.by = "range"
    /\ \E q \in CdnRequests : q.by = "preload"

(***************************************************************************)
(* Properties of /api/preload                                              *)
(***************************************************************************)
\* a request arrives in this step
Arrives == pl'.n = pl.n + 1

\* C21: a preload without path is answered 400 at once, nothing sent
\* upstream or cached; a preload whose key was stored less than PRELOAD_TTL
\* ago is answered "cached" at once; "preloaded" is answered in the step
\* that stores the fetched bytes under the key
C21_PreloadAnswers ==
    [][/\ (Arrives /\ pl'.url = "preloadNoPath") =>
              /\ pl'.pc = "done"
              /\ pl'.status = 400
              /\ UNCHANGED <<metadata, redirects, preload>>
       /\ (Arrives /\ pl'.url = "preload" /\ preload[pl'.start].present
                   /\ now - preload[pl'.start].timestamp < PRELOAD_TTL) =>
              /\ pl'.pc = "done"
              /\ pl'.status = 200
              /\ pl'.said = "cached"
              /\ UNCHANGED <<metadata, redirects, preload>>
       /\ (pl'.said = "preloaded" /\ pl.said # "preloaded") =>
              /\ pl.url = "preload"
              /\ preload'[pl.start].present
              /\ preload'[pl.start].timestamp = now
              /\ preload'[pl.start].data = Min(pl.end, fileSize - 1) - pl.start + 1
      ]_vars

\* a preload is answered "cached" from an entry one minute short of its
\* lifetime, stored by an earlier preload
C21_Witness ==
    /\ pl.said = "cached"
    /\ pl.preAge = PRELOAD_TTL - 1
    /\ preload[pl.start].present

(***************************************************************************)
(* Properties of the slicing of a full body                                *)
(***************************************************************************)
\* a 200 body is, or was, sliced for the request
Sliced == up.status = 200 /\ up.state # "none"

\* C22: of a 200 body delivered in any chunking the client is written the
\* bytes at offsets start..end that have arrived, in ascending order and
\* once each; the chunk with which sent >= targetBytes or downloaded > end
\* has the upstream reader destroyed and the response ended, for good
C22_SliceExact ==
    Sliced =>
        /\ res.inorder
        /\ res.written = Max(0, Min(rq.range.end, up.downloaded - 1) - rq.range.start + 1)
        /\ (up.downloaded > 0
               /\ (up.sent2 >= Target2(rq.range) \/ up.downloaded > rq.range.end)) =>
              (up.state = "destroyed" /\ res.ended)

\* a range that starts inside the body was cut out of it in small chunks
\* and the reader destroyed before the end of the body
C22_Witness ==
    /\ Sliced
    /\ ~up.big
    /\ rq.range.start > 0
    /\ res.written = rq.range.end - rq.range.start + 1
    /\ up.state = "destroyed"
    /\ up.left > 0

(***************************************************************************)
(* Properties of the answers built from the segment cache                  *)
(***************************************************************************)
\* the pieces, put end to end, are the file bytes lo..hi
Covers(pieces, lo, hi) ==
    /\ pieces # <<>>
    /\ pieces[1].from = lo
    /\ \A i \in 1..(Len(pieces) - 1) : pieces[i + 1].from = pieces[i].from + pieces[i].len
    /\ pieces[Len(pieces)].from + pieces[Len(pieces)].len - 1 = hi

\* C23: a Range request answered from the segment cache (206 straight after
\* the HEAD response) gets the bytes range.start..range.end of the file
C23_CacheAnswerExact ==
    [][\A c \in Conns :
          (er[c].pc = "head" /\ er'[c].pc = "done" /\ er'[c].status = 206) =>
              Covers(er'[c].body, er'[c].range.start,
                     Min(er'[c].range.end, er'[c].total - 1))]_vars

(***************************************************************************)
(* Properties of the requests sent to the origin                           *)
(***************************************************************************)
\* C24: the response to the Range GET is streamed, followed to the CDN or
\* the request fails; but for the redirect retry no further GET goes to
\* the origin for the same client request
C24_SingleOriginGet == rq.pc \notin {"pdReq", "pd200"}

\* C25: when a request is over, the body of the last upstream response it
\* obtained has been read to its end, has failed or has been destroyed
C25_BodiesConsumed ==
    (rq.pc = "closed" /\ up.status # 0) => up.state \in {"ended", "destroyed", "errored"}

\* C26: a client request is retried at most once, and a failure after the
\* retry ends the request at the router
C26_OneRetry ==
    /\ rq.retries <= 1
    /\ rq.retries = 1 => rq.pc \in {"retryGet", "cdnReq", "cdn206", "cdn200", "closed", "stalled"}
    /\ (rq.retries = 1 /\ rq.pc = "closed") => res.status \in {500, 206}

\* the CDN refused the request that followed the retry, and the request
\* ended at the router
C26_Witness ==
    /\ rq.retries = 1
    /\ rq.pc = "closed"
    /\ up.from = "cdn"
    /\ up.status = 403
    /\ res.status = 500

(***************************************************************************)
(* Properties of the router's bookkeeping and error answers                *)
(***************************************************************************)
\* C27: the ActiveRequest entry of a request is there while the request is
\* in progress, its body being streamed included, and gone once it is over
C27_ActiveUntilDone ==
    /\ rq.pc \notin {"idle", "closed"} => rq.active
    /\ rq.pc = "closed" => ~rq.active

\* C28: a Range request that fails once the head of the client response is
\* written has its response ended, with the status it had: no second head
C28_FailureAfterHead ==
    (rq.pc = "closed" /\ rq.fail # "none" /\ res.status = 206) => res.ended

(***************************************************************************)
(* Properties of the segment cache's eviction                              *)
(***************************************************************************)
\* the entries of the cache that the step leaves as they were, and the one
\* the step's call of set overwrote after cleanup had kept it
Survives(i) ==
    \/ \E k \in 1..Len(cache') : cache'[k] = cache[i]
    \/ /\ lastSet'.existed
       /\ \E k \in 1..Len(cache') :
              cache'[k].seq = lastSet'.n /\ cache'[k].key = cache[i].key

\* C29: a call of set that evicts removes the entries least recently
\* accessed, among equals those first in the Map: every entry removed
\* precedes every entry kept in (lastAccess, position in the Map) order
C29_EvictsLeastRecent ==
    [][(lastSet'.n # lastSet.n /\ lastSet'.evicted > 0) =>
          LET kept == {i \in 1..Len(cache) : Survives(i)}
              removed == (1..Len(cache)) \ kept
          IN  /\ Cardinality(removed) = lastSet'.evicted
              /\ \A i \in removed, j \in kept :
                     \/ cache[i].lastAccess < cache[j].lastAccess
                     \/ cache[i].lastAccess = cache[j].lastAccess /\ i < j]_vars

\* a call of set has evicted the first entries of the Map and kept later ones
\* a call of set has evicted entries and kept the first entry of the Map,
\* which an exact lookup had used since
C29_Witness ==
    /\ lastSet.evicted > 0
    /\ Len(cache) > 1
    /\ cache[1] = [FullCache[1] EXCEPT !.lastAccess = 1]

\* C30: when a request is answered from the cache, each piece of the answer
\* comes from an entry whose last access is then the time of the answer
C30_UseRefreshes ==
    [][\A c \in Conns :
          (er[c].pc = "head" /\ er'[c].pc = "done" /\ er'[c].status = 206) =>
              \A p \in 1..Len(er'[c].body) :
                  \E k \in 1..Len(cache') :
                      /\ cache'[k].dataStart <= er'[c].body[p].from
                      /\ er'[c].body[p].from + er'[c].body[p].len
                             <= cache'[k].dataStart + cache'[k].size
                      /\ cache'[k].lastAccess = now]_vars

(***************************************************************************)
(* Properties of the parser's treatment of malformed headers               *)
(***************************************************************************)
\* C31: parseRange returns no range for a header with another unit or with
\* a bound that is not a decimal number, and no range it returns has a
\* bound that is not a number
C31_MalformedRejected ==
    "streaming" \in pDone =>
        /\ pRange.ok => (~pRange.nanS /\ ~pRange.nanE)
        /\ (pForm.unit # "bytes=" \/ pForm.form \in {"junkS", "junkE"}) => ~pRange.ok

\* C33: a range marked as expanded contains the interval the client asked
\* for, for every header bytes=S-E that names bytes of the file, E at or
\* past the end of the file included
C33_ExpansionContains ==
    ("streaming" \in pDone /\ pForm.form = "SE" /\ pForm.unit = "bytes="
        /\ pForm.s <= pForm.e /\ pForm.s < pTotal /\ pRange.optimized) =>
        /\ pRange.start <= pRange.originalEnd
        /\ pRange.originalEnd <= pRange.end

\* C39: for a well-formed header and a file that is not empty every bound
\* of the range parseRange returns is an integer
C39_IntegerBounds ==
    ("streaming" \in pDone /\ DocumentedForm(pForm) /\ pTotal > 0 /\ pRange.ok) =>
        ~pRange.half

(***************************************************************************)
(* Properties of the caches' bookkeeping                                   *)
(***************************************************************************)
\* C32: the cacheSize counter equals the total size of the entries held
C32_CounterMatches == cacheSize = SumSizes(cache)

\* C34: when the outbound Range was widened to a whole segment (the client
\* range is shorter than half a segment and lies in the file), the segment
\* downloaded contains the client range and the body sent is that range
C34_WidenedContains ==
    [][\A c \in Conns :
          (/\ er[c].pc = "body206" /\ er'[c].pc = "done"
           /\ er[c].range.start <= er[c].range.end /\ er[c].range.end < er[c].total
           /\ 2 * (er[c].range.end - er[c].range.start + 1) < SEGMENT_SIZE) =>
              /\ er[c].dr.start <= er[c].range.start
              /\ er[c].range.end <= er[c].dr.end
              /\ er'[c].body = <<[from |-> er[c].range.start,
                                  len |-> er[c].range.end - er[c].range.start + 1]>>]_vars

\* C35: a metadata entry is only ever stored with a positive Content-Length
C35_MetadataPositive == metadata.present => metadata.data > 0

\* C36: when a request sent to the cached redirect URL failed there and the
\* retry obtains a Location from the origin, the redirect entry is removed
\* or is the one written at that moment
C36_RedirectReplaced ==
    [][(rq.pc = "retryGet" /\ rq.redir /\ rq'.pc = "cdnReq") =>
          (~redirects'.present \/ redirects'.timestamp = now)]_vars

(***************************************************************************)
(* Properties of the preload handler and the pass-through proxy            *)
(***************************************************************************)
\* C37: every Range the preload handler asks of an upstream lies in the
\* file: 0 <= start <= end < total
C37_PreloadRangeValid ==
    pl.pc \in {"get", "cdn", "up"} =>
        (0 <= pl.start /\ pl.start <= pl.end /\ pl.end < pl.total)

C40_SweepAgreesWithReads ==
    [][/\ (metadata.present /\ ~metadata'.present) => ~getCachedMetadata
       /\ (redirects.present /\ ~redirects'.present) =>
              now - redirects.timestamp >= REDIRECT_TTL
       /\ \A k \in PreloadStarts :
              (preload[k].present /\ ~preload'[k].present) => ~getCachedPreload(k)
       /\ (Arrives /\ pl'.url = "preload" /\ preload[pl'.start].present
              /\ now - preload[pl'.start].timestamp >= PRELOAD_TTL) =>
              pl'.said # "cached"
       /\ (Arrives /\ pl'.url = "preload" /\ ~getCachedPreload(pl'.start)
              /\ metadata.present /\ now - metadata.timestamp >= METADATA_TTL) =>
              pl'.pc = "head"]_vars

\* the sweeper has removed the range the last preload stored and has left
\* the metadata entry in place
C40_Witness ==
    /\ pl.pc = "done"
    /\ pl.said = "preloaded"
    /\ ~preload[pl.start].present
    /\ metadata.present

====
